---- MODULE Spec2Model ----
(***************************************************************************)
(* A model of main.py: the JSON-backed ledger of income/expense records.   *)
(*                                                                         *)
(* DataControl's methods are operators over the backing file; each returns *)
(* [file, exc, val]: the file after the call, the exception that ended the *)
(* call ("None" when it returned) and the returned value.  The actions of  *)
(* Spec are a caller's calls of those methods, the actions of MenuSpec are *)
(* the handlers of Main.start_application's loop, and ConcSpec runs        *)
(* add_record from two callers with its read and its save as two steps.    *)
(*                                                                         *)
(* String values: the source's two category literals are Russian words for *)
(* income and expense; they are written here transliterated ("Dohod",      *)
(* "Rashod"), the module being ASCII.  Amounts are Python floats in the    *)
(* source; the model uses small integers, on which float sums are exact.   *)
(***************************************************************************)
EXTENDS Integers, Sequences, FiniteSets, TLC

VARIABLES
    file,     \* the backing file: [exists, content]
    pre,      \* the backing file as it was when the running call began
    last,     \* the call in progress or just ended: [op, <arguments>]
    ret,      \* what that call gave back: [exc, val]
    callers,  \* ConcSpec: each concurrent caller's [pc, records, record]
    log       \* ConcSpec: the file accesses so far, <<kind, caller>> each

vars == <<file, pre, last, ret, callers, log>>

----------------------------------------------------------------------------
(* Bounds and input domains *)

MaxRecords == 2      \* longest ledger explored
MaxCriteria == 2     \* most keys in one search_criteria

Dates == {"2024-01-01", "2024-01-02"}
Income == "Dohod"
Expense == "Rashod"
Categories == {Income, Expense}
Amounts == {40, 100}
Descriptions == {""}

\* the keys of DataFormat.dictionary(), in the order the dict literal lists them
Fields == <<"date", "category", "amount", "description">>
FieldSet == {Fields[k] : k \in DOMAIN Fields}

\* DataFormat.__init__: an instance with its four attributes
DataFormat(date, category, amount, description) ==
    [date |-> date, category |-> category, amount |-> amount,
     description |-> description]

DataFormats ==
    {DataFormat(d, c, a, s) : d \in Dates, c \in Categories, a \in Amounts,
                              s \in Descriptions}

\* DataFormat.dictionary: a dict built from the attributes
dictionary(self) ==
    [k \in FieldSet |->
        CASE k = "date" -> self.date
          [] k = "category" -> self.category
          [] k = "amount" -> self.amount
          [] k = "description" -> self.description]

RECURSIVE SeqsUpTo(_, _)
SeqsUpTo(S, n) ==
    IF n = 0 THEN {<<>>}
    ELSE LET shorter == SeqsUpTo(S, n - 1)
         IN  shorter \cup {Append(q, x) : q \in {p \in shorter : Len(p) = n - 1}, x \in S}

\* the ledgers a file can hold: lists of dictionaries of records
Ledgers == SeqsUpTo({dictionary(r) : r \in DataFormats}, MaxRecords)

----------------------------------------------------------------------------
(* The JSON text of the file, as json.dump writes it and json.load reads   *)
(* it: an array of objects, each object the list of its members in the     *)
(* order written, each member <<key, token>>, a token a string literal or  *)
(* a number literal.                                                       *)

Absent == [exists |-> FALSE, content |-> <<>>]

JsonString(s) == [t |-> "string", v |-> s]
JsonNumber(n) == [t |-> "number", v |-> n]

\* json.dump of one value: a float as a number literal, a str as a string
Encode(key, value) ==
    IF key = "amount" THEN JsonNumber(value) ELSE JsonString(value)

\* json.load of one literal
Decode(token) == token.v

\* json.dump of one dict: its members in the dict's order
DumpObject(d) ==
    [k \in 1..Len(Fields) |-> <<Fields[k], Encode(Fields[k], d[Fields[k]])>>]

\* json.dump(records, file, indent=4)
Dump(records) == [n \in 1..Len(records) |-> DumpObject(records[n])]

\* json.load of one object: a dict of its members, a repeated key's last
\* member winning
LoadObject(obj) ==
    LET keys == {obj[j][1] : j \in DOMAIN obj}
        at(k) == CHOOSE j \in DOMAIN obj :
                    /\ obj[j][1] = k
                    /\ \A i \in DOMAIN obj : obj[i][1] = k => i <= j
    IN  [k \in keys |-> Decode(obj[at(k)][2])]

\* json.load(file)
Load(content) == [n \in 1..Len(content) |-> LoadObject(content[n])]

----------------------------------------------------------------------------
(* DataControl *)

\* The values a call returns, each tagged with its Python type: TLC compares
\* the values a variable takes, and values of different kinds compare only
\* as records of different fields
PyNone == [none |-> "None"]
PyBool(b) == [bool |-> b]
PyList(l) == [list |-> l]
Printed(message) == [printed |-> message]

Returned(f, value) == [file |-> f, exc |-> "None", val |-> value]
Raised(f, exception) == [file |-> f, exc |-> exception, val |-> PyNone]

\* read_file without the os.path.exists test: open() of a missing file raises
read_file_NoExistsCheck(f) ==
    IF f.exists THEN Returned(f, PyList(Load(f.content)))
    ELSE Raised(f, "FileNotFoundError")

\* DataControl.read_file
read_file(f) ==
    IF f.exists THEN Returned(f, PyList(Load(f.content)))
    ELSE Returned(f, PyList(<<>>))

\* save_records opening the file 'r+': what the old text held beyond the new
\* text stays
save_records_NoTruncate(f, records) ==
    IF ~f.exists THEN Raised(f, "FileNotFoundError")
    ELSE Returned([exists |-> TRUE,
                   content |-> Dump(records) \o
                               SubSeq(f.content, Len(records) + 1,
                                      Len(f.content))], PyNone)

\* DataControl.save_records: open(filename, 'w') and json.dump
save_records(f, records) ==
    Returned([exists |-> TRUE, content |-> Dump(records)], PyNone)

\* records.insert(0, ...) in place of records.append(...)
AppendRecord_AtFront(records, d) == <<d>> \o records

\* records = [...] in place of records.append(...)
AppendRecord_Overwrite(records, d) == <<d>>

\* records.append(record.dictionary())
AppendRecord(records, d) == Append(records, d)

\* DataControl.add_record
add_record(f, record) ==
    LET rd == read_file(f)
    IN  IF rd.exc # "None" THEN Raised(f, rd.exc)
        ELSE save_records(f, AppendRecord(rd.val.list, dictionary(record)))

\* the test without its lower bound: index < len(records)
InRange_NoLowerBound(index, records) == index < Len(records)

\* the test of update_record: 0 <= index < len(records)
InRange(index, records) == 0 <= index /\ index < Len(records)

\* records[index - 1] = ...: the index taken as a 1-based number, so that
\* index 0 names the last record
SetItem_FromOne(records, index, d) ==
    [records EXCEPT ![IF index = 0 THEN Len(records) ELSE index] = d]

\* records.pop(index) in place of the assignment
SetItem_Remove(records, index, d) ==
    SubSeq(records, 1, index) \o SubSeq(records, index + 2, Len(records))

\* records[index] = updated_record.dictionary()
SetItem(records, index, d) == [records EXCEPT ![index + 1] = d]

\* DataControl.update_record
update_record(f, index, updated_record) ==
    LET rd == read_file(f)
    IN  IF rd.exc # "None" THEN Raised(f, rd.exc)
        ELSE IF InRange(index, rd.val.list)
             THEN LET sv == save_records(f, SetItem(rd.val.list, index,
                                                    dictionary(updated_record)))
                  IN  Returned(sv.file, PyBool(TRUE))
             ELSE Returned(f, PyBool(FALSE))

\* any(...) in place of all(...): stops at the first true item
RECURSIVE AllMatch_Any(_, _, _)
AllMatch_Any(record, search_criteria, k) ==
    IF k > Len(search_criteria) THEN "False"
    ELSE LET key == search_criteria[k][1]
             value == search_criteria[k][2]
         IN  IF key \notin DOMAIN record THEN "KeyError"
             ELSE IF record[key] = value THEN "True"
             ELSE AllMatch_Any(record, search_criteria, k + 1)

\* all([...]) over a list in place of the generator: every item is evaluated
\* before all() looks at any
AllMatch_Eager(record, search_criteria, k) ==
    IF \E j \in k..Len(search_criteria) : search_criteria[j][1] \notin DOMAIN record
    THEN "KeyError"
    ELSE IF \A j \in k..Len(search_criteria) :
                record[search_criteria[j][1]] = search_criteria[j][2]
         THEN "True" ELSE "False"

\* all(record[key] == value for key, value in search_criteria.items()),
\* from the k-th item on: the generator is consumed in the dict's order and
\* all() stops at the first false item; record[key] raises KeyError
RECURSIVE AllMatch(_, _, _)
AllMatch(record, search_criteria, k) ==
    IF k > Len(search_criteria) THEN "True"
    ELSE LET key == search_criteria[k][1]
             value == search_criteria[k][2]
         IN  IF key \notin DOMAIN record THEN "KeyError"
             ELSE IF record[key] # value THEN "False"
             ELSE AllMatch(record, search_criteria, k + 1)

\* the for loop of search_records, from the n-th record on
RECURSIVE SearchLoop(_, _, _, _, _)
SearchLoop(f, records, search_criteria, n, matching_records) ==
    IF n > Len(records) THEN Returned(f, PyList(matching_records))
    ELSE LET m == AllMatch(records[n], search_criteria, 1)
         IN  IF m = "KeyError" THEN Raised(f, "KeyError")
             ELSE SearchLoop(f, records, search_criteria, n + 1,
                             IF m = "True"
                             THEN Append(matching_records, records[n])
                             ELSE matching_records)

\* DataControl.search_records; search_criteria is the dict as the list of its
\* items, <<key, value>> each, in insertion order
search_records(f, search_criteria) ==
    LET rd == read_file(f)
    IN  IF rd.exc # "None" THEN Raised(f, rd.exc)
        ELSE SearchLoop(f, rd.val.list, search_criteria, 1, <<>>)

\* the sum without its category filter
RECURSIVE SumAmount_NoFilter(_, _, _, _)
SumAmount_NoFilter(records, category, n, acc) ==
    IF n > Len(records) THEN acc
    ELSE SumAmount_NoFilter(records, category, n + 1, acc + records[n]["amount"])

\* sum(record['amount'] for record in records if record['category'] == c)
RECURSIVE SumAmount(_, _, _, _)
SumAmount(records, category, n, acc) ==
    IF n > Len(records) THEN acc
    ELSE SumAmount(records, category, n + 1,
                   IF records[n]["category"] = category
                   THEN acc + records[n]["amount"] ELSE acc)

\* Main.display_balance: the three figures handed to ui.actual_balance
display_balance(f) ==
    LET rd == read_file(f)
    IN  IF rd.exc # "None" THEN Raised(f, rd.exc)
        ELSE LET income == SumAmount(rd.val.list, Income, 1, 0)
                 expenses == SumAmount(rd.val.list, Expense, 1, 0)
                 balance == income - expenses
             IN  Returned(f, [balance |-> balance, income |-> income,
                              expenses |-> expenses])

----------------------------------------------------------------------------
(* Inputs *)

\* every file the program can have left behind, and no file at all
Files == {Absent} \cup {[exists |-> TRUE, content |-> Dump(R)] : R \in Ledgers}

\* index arguments: below, inside and beyond every ledger
Indices == (0 - 1)..(MaxRecords + 1)

\* the items a search_criteria can hold: the fields the interface searches by,
\* the amount, and "comment" and "id", keys no stored record has
Items ==
    {<<"date", d>> : d \in Dates} \cup {<<"category", c>> : c \in Categories}
    \cup {<<"amount", a>> : a \in Amounts}
    \cup {<<"comment", "x">>, <<"id", "x">>}

\* a dict has each key once
DistinctKeys(c) == \A i, j \in DOMAIN c : c[i][1] = c[j][1] => i = j

Criteria == {c \in SeqsUpTo(Items, MaxCriteria) : DistinctKeys(c)}

\* what read_file gives of file f, nothing when it raises
Ledger(f) == LET rd == read_file(f) IN IF rd.exc = "None" THEN rd.val.list ELSE <<>>

Count(f) == Len(Ledger(f))

Idle == [op |-> "none"]
NoReturn == [exc |-> "None", val |-> PyNone]

Callers == {"A", "B"}
NotCalled == [pc |-> "call", records |-> <<>>, record |-> PyNone]

----------------------------------------------------------------------------
(* Spec: a single caller of DataControl and of display_balance.            *)
(* A call runs whole, from the caller's idle state (last = Idle, which the  *)
(* actions test before they draw their arguments); Proceed is the caller   *)
(* dropping the result and going on to its next call.                      *)

Init ==
    /\ file \in Files
    /\ pre = file
    /\ last = Idle
    /\ ret = NoReturn
    /\ callers = [p \in Callers |-> NotCalled]
    /\ log = <<>>

Call(call, out) ==
    /\ last = Idle
    /\ last' = call
    /\ pre' = file
    /\ file' = out.file
    /\ ret' = [exc |-> out.exc, val |-> out.val]
    /\ UNCHANGED <<callers, log>>

Call_read_file ==
    Call([op |-> "read_file"], read_file(file))

Call_save_records ==
    /\ last = Idle
    /\ \E records \in Ledgers :
        Call([op |-> "save_records", records |-> records],
             save_records(file, records))

Call_add_record ==
    /\ last = Idle
    /\ Count(file) < MaxRecords
    /\ \E record \in DataFormats :
        Call([op |-> "add_record", record |-> record], add_record(file, record))

Call_update_record ==
    /\ last = Idle
    /\ \E index \in Indices, record \in DataFormats :
        Call([op |-> "update_record", index |-> index, record |-> record],
             update_record(file, index, record))

Call_search_records ==
    /\ last = Idle
    /\ \E criteria \in Criteria :
        Call([op |-> "search_records", criteria |-> criteria],
             search_records(file, criteria))

Call_display_balance ==
    Call([op |-> "display_balance"], display_balance(file))

Proceed ==
    /\ last.op \notin {"none", "exit"}
    /\ last' = Idle
    /\ ret' = NoReturn
    /\ pre' = file
    /\ UNCHANGED <<file, callers, log>>

Next ==
    \/ Call_read_file
    \/ Call_save_records
    \/ Call_add_record
    \/ Call_update_record
    \/ Call_search_records
    \/ Call_display_balance
    \/ Proceed

Spec == Init /\ [][Next]_vars

----------------------------------------------------------------------------
(* What the call that just ended was given and gave *)

Before == Ledger(pre)       \* the ledger when the call began
After == Ledger(file)       \* the ledger now
Did(op) == last.op = op
ReturnedValue(v) == ret.exc = "None" /\ ret.val = v

\* the keys of a criteria, and whether a record has the criteria's value
\* under each of them
KeysOf(c) == {c[k][1] : k \in DOMAIN c}
MatchesEvery(record, c) == \A k \in DOMAIN c : record[c[k][1]] = c[k][2]

\* the sum of the amounts of the records of one category
RECURSIVE TotalOver(_, _)
TotalOver(records, positions) ==
    IF positions = {} THEN 0
    ELSE LET n == CHOOSE x \in positions : TRUE
         IN  records[n]["amount"] + TotalOver(records, positions \ {n})
Total(records, category) ==
    TotalOver(records, {n \in DOMAIN records : records[n]["category"] = category})

----------------------------------------------------------------------------
(* Claims checked under Spec *)

\* C1: update_record(i, r) with 0 <= i < len(R) returns True, and afterwards
\* read_file() has the length of R, r's dictionary at position i and R[j] at
\* every other position j.
C1_UpdateReplacesOnePosition ==
    (Did("update_record") /\ 0 <= last.index /\ last.index < Len(Before)) =>
        /\ ReturnedValue(PyBool(TRUE))
        /\ Len(After) = Len(Before)
        /\ After[last.index + 1] = dictionary(last.record)
        /\ \A j \in DOMAIN Before : j # last.index + 1 => After[j] = Before[j]

C1_Witness ==
    /\ Did("update_record")
    /\ last.index = 0
    /\ Len(Before) = 2
    /\ Before[1] # dictionary(last.record)
    /\ Before[2] # Before[1]
    /\ After = <<dictionary(last.record), Before[2]>>

\* C2: update_record(i, r) with i outside [0, len(R)) returns False, raises
\* nothing and leaves the persisted store as it was: nothing is written and an
\* absent file stays absent.
C2_UpdateOutOfRangeChangesNothing ==
    (Did("update_record") /\ ~(0 <= last.index /\ last.index < Len(Before))) =>
        /\ ReturnedValue(PyBool(FALSE))
        /\ file = pre

C2_Witness ==
    /\ Did("update_record")
    /\ last.index < 0
    /\ Len(Before) = 2
    /\ ret.val = PyBool(FALSE)
    /\ file = pre

\* C3: add_record(r) leaves the store so that read_file() returns R followed
\* by r's dictionary: the old records keep place and value, one is added.
C3_AddAppendsLast ==
    Did("add_record") =>
        /\ ret.exc = "None"
        /\ After = Append(Before, dictionary(last.record))

C3_Witness ==
    /\ Did("add_record")
    /\ Len(Before) = 1
    /\ Before[1] # dictionary(last.record)
    /\ After = <<Before[1], dictionary(last.record)>>

\* C4: whatever the store held, save_records(R) followed by read_file() gives
\* exactly R: same order, same field values, nothing of the prior content.
C4_SaveThenReadIsIdentity ==
    Did("save_records") =>
        /\ ret.exc = "None"
        /\ read_file(file).exc = "None"
        /\ After = last.records

C4_Witness ==
    /\ Did("save_records")
    /\ Len(Before) = 2
    /\ Len(last.records) = 1
    /\ last.records[1] \notin {Before[1], Before[2]}
    /\ After = last.records

\* C5: with criteria keys among the record fields, search_records(criteria)
\* returns exactly the records of R, in store order, that equal the criteria
\* value on every key; with empty criteria, all of R.
C5_SearchReturnsTheMatching ==
    (Did("search_records") /\ KeysOf(last.criteria) \subseteq FieldSet) =>
        LET Wanted(record) == MatchesEvery(record, last.criteria)
        IN  /\ ReturnedValue(PyList(SelectSeq(Before, Wanted)))
            /\ last.criteria = <<>> => ret.val = PyList(Before)

C5_Witness ==
    /\ Did("search_records")
    /\ Len(last.criteria) = 2
    /\ KeysOf(last.criteria) = {"date", "category"}
    /\ Len(Before) = 2
    /\ MatchesEvery(Before[1], last.criteria)
    /\ ~MatchesEvery(Before[2], last.criteria)
    /\ Before[2]["date"] = Before[1]["date"]
    /\ ret.val = PyList(<<Before[1]>>)

\* C6: display_balance reports income = the sum of the amounts of the stored
\* income records, expenses = that of the stored expense records, balance =
\* income - expenses, of the records stored when it is asked.
C6_BalanceOfTheStoredRecords ==
    Did("display_balance") =>
        ReturnedValue([income |-> Total(Before, Income),
                       expenses |-> Total(Before, Expense),
                       balance |-> Total(Before, Income) - Total(Before, Expense)])

C6_Witness ==
    /\ Did("display_balance")
    /\ Len(Before) = 2
    /\ Before[1]["category"] = Income /\ Before[1]["amount"] = 100
    /\ Before[2]["category"] = Expense /\ Before[2]["amount"] = 40
    /\ ret.val = [income |-> 100, expenses |-> 40, balance |-> 60]

\* the file holding "[]"
EmptyArray == [exists |-> TRUE, content |-> <<>>]

\* what the call that just ended does on file f
Outcome(f) ==
    CASE Did("read_file") -> read_file(f)
      [] Did("save_records") -> save_records(f, last.records)
      [] Did("add_record") -> add_record(f, last.record)
      [] Did("update_record") -> update_record(f, last.index, last.record)
      [] Did("search_records") -> search_records(f, last.criteria)
      [] Did("display_balance") -> display_balance(f)

\* C7: with no backing file every operation does what it does on a file
\* holding an empty array: read_file and search_records return an empty list,
\* display_balance reports 0, 0 and 0, update_record returns False, and
\* add_record(r) leaves the store [r].
C7_AbsentFileIsAnEmptyLedger ==
    (pre = Absent /\ ~Did("none")) =>
        /\ Did("read_file") => ReturnedValue(PyList(<<>>))
        /\ Did("search_records") => ReturnedValue(PyList(<<>>))
        /\ Did("display_balance") =>
               ReturnedValue([income |-> 0, expenses |-> 0, balance |-> 0])
        /\ Did("update_record") => ReturnedValue(PyBool(FALSE))
        /\ Did("add_record") =>
               ret.exc = "None" /\ After = <<dictionary(last.record)>>
        /\ LET onEmpty == Outcome(EmptyArray)
           IN  /\ ret.exc = onEmpty.exc
               /\ ret.exc = "None" => ret.val = onEmpty.val
               /\ After = Ledger(onEmpty.file)

C7_Witness ==
    /\ pre = Absent
    /\ Did("add_record")
    /\ file.exists
    /\ After = <<dictionary(last.record)>>

\* the first key of a criteria that no stored record has, and whether a
\* record has the criteria's value under every key before it
HasAbsentKey(c) == \E k \in DOMAIN c : c[k][1] \notin FieldSet
FirstAbsentKey(c) ==
    CHOOSE k \in DOMAIN c :
        /\ c[k][1] \notin FieldSet
        /\ \A j \in 1..(k - 1) : c[j][1] \in FieldSet
MatchesUpTo(record, c, k) == \A j \in 1..(k - 1) : record[c[j][1]] = c[j][2]

\* C10 as stated: on a store of at least one record, search_records with a
\* criteria key that is no field of the stored records ends in a lookup
\* failure, whatever the other keys and values are.
C10_AbsentKeyAlwaysFails ==
    (Did("search_records") /\ Len(Before) >= 1 /\ HasAbsentKey(last.criteria)) =>
        ret.exc = "KeyError"

\* C10 as amended: such a search ends in a lookup failure exactly when some
\* stored record has the criteria's value under every key that comes before
\* the first absent key (so always when that key comes first); otherwise it
\* returns an empty list and nothing fails.
C10_AbsentKeyFailsWhenReached ==
    (Did("search_records") /\ Len(Before) >= 1 /\ HasAbsentKey(last.criteria)) =>
        LET k == FirstAbsentKey(last.criteria)
            reached == \E n \in DOMAIN Before :
                           MatchesUpTo(Before[n], last.criteria, k)
        IN  /\ reached => ret.exc = "KeyError"
            /\ ~reached => ReturnedValue(PyList(<<>>))

C10_Witness ==
    /\ Did("search_records")
    /\ Len(last.criteria) = 2
    /\ last.criteria[1][1] = "date"
    /\ last.criteria[2][1] = "comment"
    /\ Len(Before) = 2
    /\ Before[1]["date"] # last.criteria[1][2]
    /\ Before[2]["date"] = last.criteria[1][2]
    /\ ret.exc = "KeyError"

----------------------------------------------------------------------------
(* MenuSpec: Main.start_application, one handler per turn of its loop.     *)
(* What a handler prints is its val.  A handler that raises ends the       *)
(* program: nothing in main.py catches.                                    *)

\* Main.add_record, record being what ui.input_record returned
Main_add_record(f, record) == add_record(f, record)

\* Main.display_records: the records handed to ui.display_records
Main_display_records(f) == read_file(f)

\* Main.changing_record; index is the number typed less one
Main_changing_record(f, index, updated_record) ==
    LET rd == read_file(f)
    IN  IF rd.exc # "None" THEN Raised(f, rd.exc)
        ELSE IF rd.val.list = <<>> THEN Returned(f, Printed("no records to change"))
        ELSE IF 0 <= index /\ index < Len(rd.val.list)
             THEN LET up == update_record(f, index, updated_record)
                  IN  IF up.exc # "None" THEN Raised(up.file, up.exc)
                      ELSE Returned(up.file,
                                    IF up.val = PyBool(TRUE)
                                    THEN Printed("record changed")
                                    ELSE Printed("record not changed"))
             ELSE Returned(f, Printed("wrong record number"))

\* ui.input_search_criteria: the dict {'date': date, 'category': category}
input_search_criteria(date, category) ==
    <<(<<"date", date>>), (<<"category", category>>)>>

\* Main.search_records: the records displayed, none when nothing was found
Main_search_records(f, date, category) ==
    search_records(f, input_search_criteria(date, category))

Choice_display_balance ==
    Call([op |-> "Main.display_balance"], display_balance(file))

Choice_add_record ==
    /\ last = Idle
    /\ Count(file) < MaxRecords
    /\ \E record \in DataFormats :
        Call([op |-> "Main.add_record", record |-> record],
             Main_add_record(file, record))

Choice_display_records ==
    Call([op |-> "Main.display_records"], Main_display_records(file))

Choice_changing_record ==
    /\ last = Idle
    /\ \E index \in Indices, record \in DataFormats :
        Call([op |-> "Main.changing_record", index |-> index, record |-> record],
             Main_changing_record(file, index, record))

Choice_search_records ==
    /\ last = Idle
    /\ \E date \in Dates, category \in Categories :
        Call([op |-> "Main.search_records", date |-> date, category |-> category],
             Main_search_records(file, date, category))

\* float(input(...)) in ui.input_record, or int(input(...)) in
\* changing_record, given text that is no number: ValueError, before any
\* call of DataControl that writes
Choice_bad_number ==
    /\ last = Idle
    /\ \E op \in {"Main.add_record", "Main.changing_record"} :
        /\ op = "Main.changing_record" => Count(file) > 0
        /\ Call([op |-> op, typed |-> "not a number"], Raised(file, "ValueError"))

\* any other choice: the message, and the prompt again
Choice_invalid ==
    Call([op |-> "invalid"], Returned(file, Printed("invalid input")))

\* choice '0': break
Choice_exit ==
    Call([op |-> "exit"], Returned(file, PyNone))

\* the handler returned: the loop prompts again
Prompt ==
    /\ last.op \notin {"none", "exit"}
    /\ ret.exc = "None"
    /\ last' = Idle
    /\ ret' = NoReturn
    /\ pre' = file
    /\ UNCHANGED <<file, callers, log>>

start_application ==
    \/ Choice_display_balance
    \/ Choice_add_record
    \/ Choice_display_records
    \/ Choice_changing_record
    \/ Choice_search_records
    \/ Choice_bad_number
    \/ Choice_invalid
    \/ Choice_exit
    \/ Prompt

MenuSpec == Init /\ [][start_application]_vars

\* C8: over the menu operations of one process no record is ever deleted: the
\* number of stored records never decreases, grows by exactly one on each
\* add_record and stays the same on every other operation.
C8_RecordsAreNeverDeleted ==
    [][/\ Count(file') >= Count(file)
       /\ (last'.op = "Main.add_record" /\ ret'.exc = "None")
              => Count(file') = Count(file) + 1
       /\ ~(last'.op = "Main.add_record" /\ ret'.exc = "None")
              => Count(file') = Count(file)]_vars

C8_Witness ==
    /\ Did("Main.add_record")
    /\ ret.exc = "None"
    /\ Len(Before) = 1
    /\ After = <<Before[1], dictionary(last.record)>>

----------------------------------------------------------------------------
(* ConcSpec: two callers of add_record on the same file.  add_record reads *)
(* the file (line 77), appends to its own list (line 78) and writes the    *)
(* list (line 79); another caller can run between the read and the write.  *)
(* Each read and each write is one step: a write cut in two by another     *)
(* caller's access, which can leave a truncated file, is not modelled.     *)

\* records = self.read_file(); records.append(record.dictionary())
AddRead(p) ==
    /\ callers[p].pc = "call"
    /\ \E record \in DataFormats :
        callers' = [callers EXCEPT ![p] =
                       [pc |-> "save",
                        records |-> AppendRecord(read_file(file).val.list,
                                                 dictionary(record)),
                        record |-> record]]
    /\ log' = Append(log, <<"read", p>>)
    /\ UNCHANGED <<file, pre, last, ret>>

\* self.save_records(records)
AddSave(p) ==
    /\ callers[p].pc = "save"
    /\ file' = save_records(file, callers[p].records).file
    /\ callers' = [callers EXCEPT ![p].pc = "done"]
    /\ log' = Append(log, <<"save", p>>)
    /\ UNCHANGED <<pre, last, ret>>

ConcInit ==
    /\ Init
    /\ Count(file) < MaxRecords

ConcNext == \E p \in Callers : AddRead(p) \/ AddSave(p)

ConcSpec == ConcInit /\ [][ConcNext]_vars

AllDone == \A p \in Callers : callers[p].pc = "done"
\* both callers read the file before either wrote it
ReadsBeforeSaves ==
    /\ Len(log) >= 2
    /\ log[1][1] = "read"
    /\ log[2][1] = "read"
LastWriter == log[Len(log)][2]

\* C9: when two callers run add_record on the same file and both read before
\* either saves, the final store holds the records read and only one of the
\* two new records, the last writer's: the other append is lost.
C9_InterleavedAddLosesAnAppend ==
    (AllDone /\ ReadsBeforeSaves) =>
        /\ After = Append(Before, dictionary(callers[LastWriter].record))
        /\ Len(After) = Len(Before) + 1

C9_Witness ==
    /\ AllDone
    /\ ReadsBeforeSaves
    /\ Len(Before) = 1
    /\ Len(After) = 2
    /\ \E p \in Callers :
        /\ p # LastWriter
        /\ \A n \in DOMAIN After : After[n] # dictionary(callers[p].record)

====
